---- MODULE Spec2Model ----
(***************************************************************************)
(* Auth + Profile API (01-auth-profile-api): the credential hasher, the    *)
(* token codec, the authenticator, the account service, the profile        *)
(* service and the user store, as a state machine.                         *)
(*                                                                         *)
(* Time is counted in clock ticks; TicksPerSecond ticks make a second.     *)
(* Strings are modelled as strings, None as the string "<None>", a UUID as *)
(* a number and its str() form as the pair <<"uuid", number>>.             *)
(***************************************************************************)
EXTENDS Integers, Sequences, FiniteSets, Bags, TLC

\* ------------------------------------------------------------------ bounds
\* identifiers uuid4 can hand out in one run
MaxId == 3
\* resolution of the wall clock: ticks per whole second
TicksPerSecond == 2
\* time scale: whole seconds in one minute of the model
SecondsPerMinute == 1
\* requests being handled at the same time
MaxInflight == 2
\* runs of reset_db.py
MaxResets == 1

\* ------------------------------------------------------- program constants
\* security.py: bcrypt's input limit in bytes
BcryptLimit == 72
\* security.py: length of hashlib.sha256(..).hexdigest()
HexDigestLen == 64
\* schemas/user.py RegisterRequest.password
PasswordMinLen == 6
PasswordMaxLen == 64

None == "<None>"

\* ------------------------------------------------------------- passwords
\* A password is a text with a length in characters and a length in UTF-8
\* bytes, or the 64-character hex rendering of the SHA-256 digest of a text.
Text(v, chars, bytes) == [kind |-> "text", v |-> v, chars |-> chars, bytes |-> bytes]

\* hashlib.sha256(password_bytes).hexdigest(): collision free on the texts of
\* the model (each text has its own v), always HexDigestLen ASCII characters
Sha256Hex(p) == [kind |-> "sha256hex", v |-> p.v, chars |-> HexDigestLen, bytes |-> HexDigestLen]

Secret1 == Text("secret1", 7, 7)
Wrong1 == Text("wrong", 5, 5)
TooShort == Text("123", 3, 3)
\* 40 two-byte characters: a valid RegisterRequest password of 80 bytes
Long80 == Text("forty-e-acute", 40, 80)
Exactly72 == Text("seventy-two", 72, 72)
Ascii73 == Text("seventy-three", 73, 73)

TextPasswords == {Secret1, Wrong1, TooShort, Long80, Exactly72, Ascii73}
\* what a client can type: any text, also the hex digest of another password
Passwords == TextPasswords \cup {Sha256Hex(p) : p \in {q \in TextPasswords : q.bytes > BcryptLimit}}

_normalize_password(password) ==
    IF password.bytes > BcryptLimit THEN Sha256Hex(password) ELSE password

Salts == {"salt-a", "salt-b"}

\* pwd_context.hash: salted, one-way; the record stands for the digest of
\* (salt, secret), which only pwd_context.verify can compare
pwd_context_hash(secret, salt) == [scheme |-> "bcrypt_sha256", salt |-> salt, digest |-> secret]

pwd_context_verify(secret, hash) == hash.scheme = "bcrypt_sha256" /\ hash.digest = secret

hash_password(password, salt) == pwd_context_hash(_normalize_password(password), salt)

verify_password(password, password_hash) ==
    pwd_context_verify(_normalize_password(password), password_hash)


\* ------------------------------------------------------------- settings
VARIABLES
    settings,   \* attribute names of the process-wide settings object
    now,        \* wall clock, in ticks
    users,      \* the users table: a set of rows
    nextId,     \* the next identifier uuid4 hands out
    resets,     \* runs of reset_db.py so far
    inflight,   \* the bag of requests whose handler has begun and not yet answered
    held,       \* a token a client kept from a 201/200 response, with its owner
    plain,      \* history: the password each stored user registered with
    hasher,     \* the credential hasher called on its own: its last call
    last        \* the response of the handler step that ran last

vars == <<settings, now, users, nextId, resets, inflight, held, plain, hasher, last>>

\* config.py: the fields class Settings declares
DeclaredSettings == {"DATABASE_URL"}

\* the attributes tokens.py reads from settings; config.py declares none of them
JwtSettings == {"JWT_SECRET", "JWT_ALGORITHM", "ACCESS_TOKEN_EXPIRE_MINUTES"}

JWT_SECRET == "process-wide-secret"
JWT_ALGORITHM == "HS256"
ACCESS_TOKEN_EXPIRE_MINUTES == 1

\* ------------------------------------------------------------ identifiers
Ids == 1..MaxId

\* str(user.id)
Str(id) == <<"uuid", id>>

NoneSub == <<"none", 0>>

\* uuid.UUID(s): the identifier a well-formed string names, 0 for ValueError
ParseUuid(s) == IF s[1] = "uuid" THEN s[2] ELSE 0

\* ------------------------------------------------------------ token codec
TtlTicks == ACCESS_TOKEN_EXPIRE_MINUTES * SecondsPerMinute * TicksPerSecond

\* timegm(d.utctimetuple()): the whole seconds of an instant given in ticks
WholeSeconds(t) == t \div TicksPerSecond

NoToken == [form |-> "none", alg |-> "", key |-> "", sub |-> NoneSub, exp |-> 0]

Garbage == [form |-> "garbage", alg |-> "", key |-> "", sub |-> NoneSub, exp |-> 0]

\* jose.jwt.encode: a datetime exp claim is stored as whole seconds
jwt_encode(payload, key, algorithm) ==
    [form |-> "jws", alg |-> algorithm, key |-> key,
     sub |-> payload.sub, exp |-> WholeSeconds(payload.exp)]

Raised(e) == [raised |-> e, token |-> NoToken, sub |-> NoneSub]

create_access_token_nottl(user_id, t) ==
    IF ~(JwtSettings \subseteq settings) THEN Raised("AttributeError")
    ELSE [raised |-> None, sub |-> NoneSub,
          token |-> jwt_encode([sub |-> user_id, exp |-> t], JWT_SECRET, JWT_ALGORITHM)]

create_access_token_fixedsub(user_id, t) ==
    IF ~(JwtSettings \subseteq settings) THEN Raised("AttributeError")
    ELSE [raised |-> None, sub |-> NoneSub,
          token |-> jwt_encode([sub |-> Str(1), exp |-> t + TtlTicks], JWT_SECRET, JWT_ALGORITHM)]

create_access_token(user_id, t) ==
    IF ~(JwtSettings \subseteq settings) THEN Raised("AttributeError")
    ELSE [raised |-> None, sub |-> NoneSub,
          token |-> jwt_encode([sub |-> user_id, exp |-> t + TtlTicks], JWT_SECRET, JWT_ALGORITHM)]

\* jose.jwt.decode: "JWTError" for a malformed token, a wrong algorithm, a bad
\* signature and (ExpiredSignatureError) an exp claim below the current whole
\* second; None when the token verifies
jwt_decode_error(token, key, algorithms, t) ==
    IF token.form # "jws" THEN "JWTError"
    ELSE IF token.alg \notin algorithms THEN "JWTError"
    ELSE IF token.key # key THEN "JWTError"
    ELSE IF token.exp < WholeSeconds(t) THEN "JWTError"
    ELSE None

decode_access_token_noexp(token, t) ==
    IF ~(JwtSettings \subseteq settings) THEN Raised("AttributeError")
    ELSE IF jwt_decode_error(token, JWT_SECRET, {JWT_ALGORITHM}, 0) # None
         THEN [raised |-> None, token |-> NoToken, sub |-> NoneSub]
         ELSE [raised |-> None, token |-> NoToken, sub |-> token.sub]

decode_access_token(token, t) ==
    IF ~(JwtSettings \subseteq settings) THEN Raised("AttributeError")
    ELSE IF jwt_decode_error(token, JWT_SECRET, {JWT_ALGORITHM}, t) # None
         THEN [raised |-> None, token |-> NoToken, sub |-> NoneSub]
         ELSE [raised |-> None, token |-> NoToken, sub |-> token.sub]

\* ------------------------------------------------------------ user store
NoPassword == Text("", 0, 0)

NoHash == [scheme |-> "", salt |-> "", digest |-> NoPassword]

NoUser == [id |-> 0, email |-> None, password_hash |-> NoHash, name |-> None,
           bio |-> None, created_at |-> 0, updated_at |-> 0]

\* scalar_one_or_none() of a select on the table
ScalarOneOrNone(rows) == IF rows = {} THEN NoUser ELSE CHOOSE u \in rows : TRUE

get_user_by_email(db, email) == ScalarOneOrNone({u \in db : u.email = email})

get_user_by_id(db, user_id) == ScalarOneOrNone({u \in db : u.id = ParseUuid(user_id)})

\* models/user.py: primary_key on id, unique on email
IntegrityErrorNone(db, row) == FALSE

IntegrityError(db, row) == \E u \in db : u.id = row.id \/ u.email = row.email


\* create_user: User(...) with default=uuid.uuid4, server_default=func.now()
NewUser(id, email, password_hash, name, t) ==
    [id |-> id, email |-> email, password_hash |-> password_hash, name |-> name,
     bio |-> None, created_at |-> t, updated_at |-> t]

\* ---------------------------------------------------------- authenticator
NoHeader == [scheme |-> "none", credentials |-> NoToken]

Bearer(token) == [scheme |-> "Bearer", credentials |-> token]

AuthResult(status, detail, user, cause) ==
    [status |-> status, detail |-> detail, user |-> user, cause |-> cause]

\* security = HTTPBearer() answers a request without credentials itself;
\* get_current_user runs on the token of the others
get_current_user(header, db, t) ==
    IF header.scheme # "Bearer"
    THEN AuthResult(403, "Not authenticated", NoUser, "no_header")
    ELSE LET decoded == decode_access_token(header.credentials, t)
             user == get_user_by_id(db, decoded.sub)
         IN IF decoded.raised # None
            THEN AuthResult(500, "Internal Server Error", NoUser, decoded.raised)
            ELSE IF decoded.sub = NoneSub
            THEN AuthResult(401, "Invalid or expired token", NoUser, "token_rejected")
            ELSE IF ParseUuid(decoded.sub) = 0
            THEN AuthResult(500, "Internal Server Error", NoUser, "ValueError")
            ELSE IF user = NoUser
            THEN AuthResult(401, "User not found", NoUser, "unknown_subject")
            ELSE AuthResult(200, None, user, "authenticated")


\* ------------------------------------------------------------- requests
Emails == {"a@x.com", "b@x.com"}
Names == {"Al", "Bo"}
Bios == {"hi", "yo"}
RegisterPasswords == {Secret1, Long80, TooShort}
LoginPasswords == {Secret1, Wrong1, Long80, Sha256Hex(Long80)}

\* the clock is followed for the token lifetime and one whole second more
MaxNow == TtlTicks + TicksPerSecond

NoHeld == [token |-> NoToken, uid |-> 0, email |-> None, iat |-> 0]

\* a token signed with a key that is not the server's, and an unsigned one
Forged(id) == [form |-> "jws", alg |-> JWT_ALGORITHM, key |-> "attacker-secret",
               sub |-> Str(id), exp |-> WholeSeconds(MaxNow) + 1]

Unsigned(id) == [form |-> "jws", alg |-> "none", key |-> JWT_SECRET,
                 sub |-> Str(id), exp |-> WholeSeconds(MaxNow) + 1]

\* the Authorization header of a client that sends the token it holds
HeldBearer == [scheme |-> "held", credentials |-> NoToken]

Headers ==
    {NoHeader, Bearer(Garbage), HeldBearer}
        \cup {Bearer(Forged(id)) : id \in Ids}
        \cup {Bearer(Unsigned(id)) : id \in Ids}

\* tokens signed with the server's key and algorithm whose payload has no sub
\* claim, or a sub that is not the text of a UUID
NoSubject == [form |-> "jws", alg |-> JWT_ALGORITHM, key |-> JWT_SECRET,
              sub |-> NoneSub, exp |-> WholeSeconds(MaxNow) + 1]

BadSubject == [form |-> "jws", alg |-> JWT_ALGORITHM, key |-> JWT_SECRET,
               sub |-> <<"text", 0>>, exp |-> WholeSeconds(MaxNow) + 1]

\* every Authorization header of the model that carries a bearer token
BearerHeaders == (Headers \ {NoHeader}) \cup {Bearer(NoSubject), Bearer(BadSubject)}

GateHeaders == BearerHeaders \cup {NoHeader}

\* the header as it reaches the server
Sent(header) == IF header = HeldBearer THEN Bearer(held.token) ELSE header

\* UpdateProfileRequest: name and bio, each optional
Updates == [name : Names \cup {None}, bio : Bios \cup {None}]

\* PATCH /me with the body {}
EmptyUpdate == [name |-> None, bio |-> None]

\* RegisterRequest: password = Field(min_length=6, max_length=64), in characters
RegisterRequestValid(password) ==
    password.chars >= PasswordMinLen /\ password.chars <= PasswordMaxLen

\* A request in flight. A register request has looked its email up; the rest of
\* its body is read when the handler goes on. A PATCH /me request holds the
\* attributes of the object get_current_user loaded.
Registering(email) == [pc |-> "register_insert", email |-> email, id |-> 0, name |-> None, bio |-> None]

Patching(user) == [pc |-> "patch_update", email |-> user.email, id |-> user.id,
                   name |-> user.name, bio |-> user.bio]

Begin(request) ==
    /\ BagCardinality(inflight) < MaxInflight
    /\ inflight' = inflight (+) SetToBag({request})

End(request) == inflight' = inflight (-) SetToBag({request})

\* The response of a handler, with what the handler saw when it ran:
\*   existed  the email of the body was in the store when the handler answered
\*   matches  the password of the body is the one the user registered with
\*   issued   the response carries an access token
\*   uid      the identifier of the user in the response
\*   holder   the user the presented bearer token was issued to, when it is the
\*            token the client holds (0 otherwise)
\*   changed  the handler changed the users table
Response(op, status, detail) ==
    [op |-> op, status |-> status, detail |-> detail, cause |-> None,
     existed |-> FALSE, matches |-> FALSE, issued |-> FALSE, uid |-> 0, holder |-> 0,
     changed |-> FALSE]

NoPlain == [i \in Ids |-> NoPassword]

NoCall == [call |-> "none", password |-> NoPassword, hash |-> NoHash,
           candidate |-> NoPassword, result |-> FALSE]

\* The settings object holds what config.py declares, or that and the secret,
\* algorithm and lifetime the token codec is specified to be configured with.
Init ==
    /\ settings \in {DeclaredSettings, DeclaredSettings \cup JwtSettings}
    /\ now = 0
    /\ users = {}
    /\ nextId = 1
    /\ resets = 0
    /\ inflight = EmptyBag
    /\ held = NoHeld
    /\ plain = NoPlain
    /\ hasher = NoCall
    /\ last = Response("none", 0, None)

\* the wall clock advances
Tick ==
    /\ now < MaxNow
    /\ now' = now + 1
    /\ UNCHANGED <<hasher, settings, users, nextId, resets, inflight, held, plain, last>>

\* a client keeps the token of a response, or goes on with the one it holds
Keep(token, user) ==
    \/ held' = [token |-> token, uid |-> user.id, email |-> user.email, iat |-> now]
    \/ held' = held

\* POST /auth/register with a body the schema rejects
RegisterInvalid(email, password) ==
    /\ ~RegisterRequestValid(password)
    /\ last' = Response("register", 422, "validation error")
    /\ UNCHANGED <<hasher, settings, now, users, nextId, resets, inflight, held, plain>>

\* register_user up to the email lookup: the email is taken
RegisterConflict(email) ==
    /\ get_user_by_email(users, email) # NoUser
    /\ last' = [Response("register", 409, "Email already registered") EXCEPT
                    !.existed = TRUE, !.cause = "EmailAlreadyExists"]
    /\ UNCHANGED <<hasher, settings, now, users, nextId, resets, inflight, held, plain>>

\* register_user up to the email lookup: the email is free
RegisterLookup(email) ==
    /\ get_user_by_email(users, email) = NoUser
    /\ Begin(Registering(email))
    /\ UNCHANGED <<hasher, settings, now, users, nextId, resets, held, plain, last>>

\* register_user from hash_password on: create_user's commit is refused
RegisterIntegrityError(r, password, name, salt) ==
    LET row == NewUser(nextId, r.email, hash_password(password, salt), name, now)
    IN /\ r.pc = "register_insert"
       /\ RegisterRequestValid(password)
       /\ nextId <= MaxId
       /\ IntegrityError(users, row)
       /\ nextId' = nextId + 1
       /\ End(r)
       /\ last' = [Response("register", 500, "Internal Server Error") EXCEPT
                       !.cause = "IntegrityError",
                       !.existed = (get_user_by_email(users, r.email) # NoUser)]
       /\ UNCHANGED <<hasher, settings, now, users, resets, held, plain>>

\* register_user from hash_password on: the row is committed, then the token
\* is issued
RegisterInsert(r, password, name, salt) ==
    LET row == NewUser(nextId, r.email, hash_password(password, salt), name, now)
        issued == create_access_token(Str(row.id), now)
    IN /\ r.pc = "register_insert"
       /\ RegisterRequestValid(password)
       /\ nextId <= MaxId
       /\ ~IntegrityError(users, row)
       /\ nextId' = nextId + 1
       /\ users' = users \cup {row}
       /\ plain' = [plain EXCEPT ![row.id] = password]
       /\ End(r)
       /\ IF issued.raised # None
          THEN /\ last' = [Response("register", 500, "Internal Server Error") EXCEPT
                               !.cause = issued.raised, !.changed = TRUE]
               /\ held' = held
          ELSE /\ last' = [Response("register", 201, None) EXCEPT
                               !.issued = TRUE, !.uid = row.id, !.changed = TRUE]
               /\ Keep(issued.token, row)
       /\ UNCHANGED <<hasher, settings, now, resets>>

\* POST /auth/login: login_user raises InvalidCredentials
LoginRejected(email, password) ==
    LET user == get_user_by_email(users, email)
    IN /\ user = NoUser \/ ~verify_password(password, user.password_hash)
       /\ last' = [Response("login", 401, "Invalid email or password") EXCEPT
                       !.existed = (user # NoUser),
                       !.matches = (user # NoUser /\ plain[user.id] = password),
                       !.cause = "InvalidCredentials"]
       /\ UNCHANGED <<hasher, settings, now, users, nextId, resets, inflight, held, plain>>

\* POST /auth/login: the password verifies and the token is issued
LoginVerified(email, password) ==
    LET user == get_user_by_email(users, email)
        issued == create_access_token(Str(user.id), now)
    IN /\ user # NoUser
       /\ verify_password(password, user.password_hash)
       /\ IF issued.raised # None
          THEN /\ last' = [Response("login", 500, "Internal Server Error") EXCEPT
                               !.existed = TRUE, !.matches = (plain[user.id] = password),
                               !.cause = issued.raised]
               /\ held' = held
          ELSE /\ last' = [Response("login", 200, None) EXCEPT
                               !.existed = TRUE, !.matches = (plain[user.id] = password),
                               !.issued = TRUE, !.uid = user.id]
               /\ Keep(issued.token, user)
       /\ UNCHANGED <<hasher, settings, now, users, nextId, resets, inflight, plain>>

\* create_access_token(str(id)) and, at the same instant, decode_access_token
\* of what it returned: holder is the identifier given, uid the one read back
TokenRoundTrip(id) ==
    LET issued == create_access_token(Str(id), now)
        decoded == decode_access_token(issued.token, now)
    IN /\ last' = IF issued.raised # None
                  THEN [Response("round_trip", 500, None) EXCEPT
                            !.cause = issued.raised, !.holder = id]
                  ELSE IF decoded.raised # None
                  THEN [Response("round_trip", 500, None) EXCEPT
                            !.cause = decoded.raised, !.holder = id, !.issued = TRUE]
                  ELSE [Response("round_trip", 200, None) EXCEPT
                            !.holder = id, !.issued = TRUE, !.uid = ParseUuid(decoded.sub)]
       /\ UNCHANGED <<hasher, settings, now, users, nextId, resets, inflight, held, plain>>

\* the response of a protected route after its dependency get_current_user
Protected(op, header, auth) ==
    [Response(op, auth.status, auth.detail) EXCEPT
        !.cause = auth.cause, !.uid = auth.user.id,
        !.holder = IF header = HeldBearer THEN held.uid ELSE 0]

GetProfileTouching(header) ==
    LET auth == get_current_user(Sent(header), users, now)
    IN /\ last' = Protected("get_me", header, auth)
       /\ users' = IF auth.status = 200
                   THEN (users \ {auth.user}) \cup {[auth.user EXCEPT !.updated_at = now]}
                   ELSE users
       /\ UNCHANGED <<hasher, settings, now, nextId, resets, inflight, held, plain>>

\* GET /me
GetProfile(header) ==
    /\ last' = Protected("get_me", header, get_current_user(Sent(header), users, now))
    /\ UNCHANGED <<hasher, settings, now, users, nextId, resets, inflight, held, plain>>

\* PATCH /me: get_current_user refuses the request
PatchRefused(header) ==
    LET auth == get_current_user(Sent(header), users, now)
    IN /\ auth.status # 200
       /\ last' = Protected("patch", header, auth)
       /\ UNCHANGED <<hasher, settings, now, users, nextId, resets, inflight, held, plain>>

\* PATCH /me: get_current_user loads the caller's row into the session
PatchAuthenticated(header) ==
    LET auth == get_current_user(Sent(header), users, now)
    IN /\ auth.status = 200
       /\ Begin(Patching(auth.user))
       /\ UNCHANGED <<hasher, settings, now, users, nextId, resets, held, plain, last>>

\* update_profile on the loaded object: a None field is skipped
AppliedReplace(loaded, updates) ==
    [loaded EXCEPT !.name = updates.name, !.bio = updates.bio]

AppliedClearingBio(loaded, updates) ==
    [loaded EXCEPT !.name = IF updates.name # None THEN updates.name ELSE loaded.name,
                   !.bio = updates.bio]

Applied(loaded, updates) ==
    [loaded EXCEPT !.name = IF updates.name # None THEN updates.name ELSE loaded.name,
                   !.bio = IF updates.bio # None THEN updates.bio ELSE loaded.bio]

\* update_user: commit() writes the columns whose value differs from the
\* loaded one and, when it writes any, the onupdate value of updated_at
CommittedStampBoth(row, loaded, applied, t) ==
    [row EXCEPT !.name = IF applied.name # loaded.name THEN applied.name ELSE row.name,
                !.bio = IF applied.bio # loaded.bio THEN applied.bio ELSE row.bio,
                !.created_at = IF applied # loaded THEN t ELSE row.created_at,
                !.updated_at = IF applied # loaded THEN t ELSE row.updated_at]

Committed(row, loaded, applied, t) ==
    [row EXCEPT !.name = IF applied.name # loaded.name THEN applied.name ELSE row.name,
                !.bio = IF applied.bio # loaded.bio THEN applied.bio ELSE row.bio,
                !.updated_at = IF applied # loaded THEN t ELSE row.updated_at]

\* PATCH /me: update_profile, the caller's row is gone from the table
PatchStale(r, updates) ==
    /\ r.pc = "patch_update"
    /\ get_user_by_id(users, Str(r.id)) = NoUser
    /\ End(r)
    /\ last' = [Response("patch", 500, "Internal Server Error") EXCEPT
                    !.cause = "StaleDataError", !.uid = r.id]
    /\ UNCHANGED <<hasher, settings, now, users, nextId, resets, held, plain>>

PatchCommitEveryRow(r, updates) ==
    LET row == get_user_by_id(users, Str(r.id))
        written == Committed(row, r, Applied(r, updates), now)
    IN /\ r.pc = "patch_update"
       /\ row # NoUser
       /\ users' = {Committed(o, r, Applied(r, updates), now) : o \in users}
       /\ End(r)
       /\ last' = [Response("patch", 200, None) EXCEPT
                       !.uid = written.id, !.changed = (written # row)]
       /\ UNCHANGED <<hasher, settings, now, nextId, resets, held, plain>>

\* PATCH /me: update_profile, commit and refresh
PatchCommit(r, updates) ==
    LET row == get_user_by_id(users, Str(r.id))
        written == Committed(row, r, Applied(r, updates), now)
    IN /\ r.pc = "patch_update"
       /\ row # NoUser
       /\ users' = (users \ {row}) \cup {written}
       /\ End(r)
       /\ last' = [Response("patch", 200, None) EXCEPT
                       !.uid = written.id, !.changed = (written # row)]
       /\ UNCHANGED <<hasher, settings, now, nextId, resets, held, plain>>

\* reset_db.py: drop_all, create_all
ResetDatabase ==
    /\ resets < MaxResets
    /\ resets' = resets + 1
    /\ users' = {}
    /\ plain' = NoPlain
    /\ UNCHANGED <<hasher, settings, now, nextId, inflight, held, last>>

\* hash_password(password), called on its own
HashPassword(password, salt) ==
    /\ hasher' = [NoCall EXCEPT !.call = "hash_password", !.password = password,
                                !.hash = hash_password(password, salt)]
    /\ UNCHANGED <<settings, now, users, nextId, resets, inflight, held, plain, last>>

\* verify_password(candidate, hash) on the hash of the last call
VerifyPassword(candidate) ==
    /\ hasher.call # "none"
    /\ hasher' = [hasher EXCEPT !.call = "verify_password", !.candidate = candidate,
                                !.result = verify_password(candidate, hasher.hash)]
    /\ UNCHANGED <<settings, now, users, nextId, resets, inflight, held, plain, last>>

\* ------------------------------------------------------- specifications
Register(emails, passwords, names, salts) ==
    \/ \E e \in emails, p \in passwords : RegisterInvalid(e, p)
    \/ \E e \in emails : RegisterConflict(e)
    \/ \E e \in emails : RegisterLookup(e)
    \/ \E r \in BagToSet(inflight), p \in passwords, n \in names, salt \in salts :
          RegisterIntegrityError(r, p, n, salt)
    \/ \E r \in BagToSet(inflight), p \in passwords, n \in names, salt \in salts :
          RegisterInsert(r, p, n, salt)

Login(emails, passwords) ==
    \/ \E e \in emails, p \in passwords : LoginRejected(e, p)
    \/ \E e \in emails, p \in passwords : LoginVerified(e, p)

Patch(headers, updates) ==
    \/ \E h \in headers : PatchRefused(h)
    \/ \E h \in headers : PatchAuthenticated(h)
    \/ \E r \in BagToSet(inflight), u \in updates : PatchStale(r, u)
    \/ \E r \in BagToSet(inflight), u \in updates : PatchCommit(r, u)

\* every operation on every input of the model
Next ==
    \/ Tick
    \/ \E p \in Passwords, salt \in Salts : HashPassword(p, salt)
    \/ \E p \in Passwords : VerifyPassword(p)
    \/ Register(Emails, RegisterPasswords, Names, Salts)
    \/ Login(Emails, LoginPasswords)
    \/ \E id \in Ids : TokenRoundTrip(id)
    \/ \E h \in Headers : GetProfile(h)
    \/ Patch(Headers, Updates)
    \/ ResetDatabase

Spec == Init /\ [][Next]_vars

\* the inputs of the smaller specifications
OneEmail == {"a@x.com"}
OneName == {"Al"}
OneSalt == {"salt-a"}
ShortPasswords == {Secret1, TooShort}
ShortLogins == {Secret1, Wrong1}
HeldOrNone == {HeldBearer, NoHeader}
HeldOnly == {HeldBearer}
NameUpdates == [name : Names \cup {None}, bio : {None}]
FewUpdates == [name : {"Bo", None}, bio : {"hi", None}]

\* registration and login on every password of the model, at one instant
NextAccounts ==
    \/ Register(Emails, RegisterPasswords, Names, OneSalt)
    \/ Login(Emails, LoginPasswords)

SpecAccounts == Init /\ [][NextAccounts]_vars

\* tokens over their lifetime: issue, present, expire, and the table reset
NextTokens ==
    \/ Tick
    \/ Register(Emails, ShortPasswords, OneName, OneSalt)
    \/ Login(Emails, ShortLogins)
    \/ \E id \in Ids : TokenRoundTrip(id)
    \/ \E h \in Headers : GetProfile(h)
    \/ ResetDatabase

SpecTokens == Init /\ [][NextTokens]_vars

\* the users table under interleaved register, login and PATCH /me requests
NextStore ==
    \/ Register(Emails, ShortPasswords, Names, OneSalt)
    \/ Login(Emails, ShortLogins)
    \/ Patch(HeldOrNone, NameUpdates)
    \/ ResetDatabase

SpecStore == Init /\ [][NextStore]_vars

\* one account and its profile over time
NextProfile ==
    \/ Tick
    \/ Register(OneEmail, ShortPasswords, OneName, OneSalt)
    \/ \E h \in HeldOnly : GetProfile(h)
    \/ Patch(HeldOnly, FewUpdates)
    \/ ResetDatabase

SpecProfile == Init /\ [][NextProfile]_vars

\* bearer tokens that are garbled or not signed with the server's key
InvalidHeaders ==
    {Bearer(Garbage)}
        \cup {Bearer(Forged(id)) : id \in Ids}
        \cup {Bearer(Unsigned(id)) : id \in Ids}

\* the protected routes under every Authorization header of the model
NextGate ==
    \/ Register(OneEmail, ShortPasswords, OneName, OneSalt)
    \/ \E h \in GateHeaders : GetProfile(h)
    \/ Patch(GateHeaders, FewUpdates)
    \/ ResetDatabase

SpecGate == Init /\ [][NextGate]_vars

\* one account over the lifetime of a token: logins and profile updates
NextSessions ==
    \/ Tick
    \/ Register(OneEmail, ShortPasswords, OneName, OneSalt)
    \/ Login(OneEmail, ShortLogins)
    \/ Patch(HeldOnly, FewUpdates)
    \/ ResetDatabase

SpecSessions == Init /\ [][NextSessions]_vars

\* two accounts, their logins, profile reads and profile updates
NextCallers ==
    \/ Register(Emails, ShortPasswords, Names, OneSalt)
    \/ Login(Emails, ShortLogins)
    \/ \E h \in HeldOrNone : GetProfile(h)
    \/ Patch(HeldOrNone, NameUpdates)
    \/ ResetDatabase

SpecCallers == Init /\ [][NextCallers]_vars

\* one account whose bio is set, replaced and sent as null
BioUpdates ==
    {[name |-> None, bio |-> "hi"], [name |-> None, bio |-> "yo"],
     [name |-> "Bo", bio |-> None], EmptyUpdate}

NextBio ==
    \/ Tick
    \/ Register(OneEmail, ShortPasswords, OneName, OneSalt)
    \/ Patch(HeldOnly, BioUpdates)
    \/ ResetDatabase

SpecBio == Init /\ [][NextBio]_vars

\* the credential hasher on every pair of passwords of the model
NextHasher ==
    \/ \E p \in Passwords, salt \in Salts : HashPassword(p, salt)
    \/ \E p \in Passwords : VerifyPassword(p)

SpecHasher == Init /\ [][NextHasher]_vars


\* -------------------------------------------------------------- properties

\* C1: registering an email is first-wins. A register request that finds its
\* email free is answered 201 with a token and creates the record; one that
\* finds the email taken is answered 409 'Email already registered', creates
\* no record and changes none.
C1_FirstRegisterWins ==
    (last.op = "register" /\ last.status # 422) =>
        IF last.existed
        THEN /\ last.status = 409
             /\ last.detail = "Email already registered"
             /\ ~last.changed
             /\ ~last.issued
        ELSE /\ last.status = 201
             /\ last.issued
             /\ last.changed

\* C2: login failures are indistinguishable. A login with a registered email
\* and a password other than the registered one, and a login with an email
\* that is not registered, are both answered 401 with the same message.
C2_LoginFailuresIdentical ==
    (last.op = "login" /\ ~(last.existed /\ last.matches)) =>
        /\ last.status = 401
        /\ last.detail = "Invalid email or password"

\* C3: verify_password(p, hash_password(p2)) is true exactly when p = p2, for
\* every pair of passwords, also when one of them is longer than 72 bytes.
C3_VerifyIffSamePassword ==
    hasher.call = "verify_password" =>
        (hasher.result <=> hasher.candidate = hasher.password)

\* the signal get_current_user gives for a token that does not verify
InvalidTokenSignal ==
    LET auth == get_current_user(Bearer(Garbage), users, now)
    IN <<auth.status, auth.detail>>

\* C4: when the token verifies and no user record matches its subject, the
\* response has the status and the message of the response to an invalid or
\* expired token.
C4_UnknownSubjectSameSignal ==
    last.cause = "unknown_subject" => <<last.status, last.detail>> = InvalidTokenSignal

\* C5: of two register requests for one email that both passed the lookup
\* before either inserted, one creates the record and the other is answered
\* with the 409 of a sequential duplicate registration.
C5_RaceLoserGetsConflict ==
    (last.op = "register" /\ last.cause = "IntegrityError") =>
        /\ last.status = 409
        /\ last.detail = "Email already registered"
        /\ ~last.changed

\* C6: in every reachable state no two stored user records have the same
\* email and no two have the same identifier.
C6_UniqueEmailAndId ==
    \A u \in users, v \in users : (u.email = v.email \/ u.id = v.id) => u = v

C6_Witness ==
    /\ Cardinality(users) = 2
    /\ last.op = "register"
    /\ last.cause = "IntegrityError"

\* C7 as stated: a profile update never changes the user's identifier, email,
\* password hash, created-at timestamp or updated-at timestamp: after any
\* update these five fields equal their values before the update.
C7_PatchKeepsFiveFields ==
    [][\A r \in BagToSet(inflight), u \in Updates :
          PatchCommit(r, u) =>
              LET before == get_user_by_id(users, Str(r.id))
                  after == get_user_by_id(users', Str(r.id))
              IN /\ after.id = before.id
                 /\ after.email = before.email
                 /\ after.password_hash = before.password_hash
                 /\ after.created_at = before.created_at
                 /\ after.updated_at = before.updated_at]_vars

\* C7, amended: a profile update never changes the user's identifier, email,
\* password hash or created-at timestamp; the updated-at timestamp becomes the
\* time of the update when the request supplies a name or a bio that differs
\* from the value it loaded, and keeps its value otherwise.
C7_PatchKeepsIdentityStampsUpdate ==
    [][\A r \in BagToSet(inflight), u \in Updates :
          PatchCommit(r, u) =>
              LET before == get_user_by_id(users, Str(r.id))
                  after == get_user_by_id(users', Str(r.id))
              IN /\ after.id = before.id
                 /\ after.email = before.email
                 /\ after.password_hash = before.password_hash
                 /\ after.created_at = before.created_at
                 /\ after.updated_at =
                        IF Applied(r, u) # r THEN now ELSE before.updated_at]_vars

C7_Witness ==
    /\ last.op = "patch"
    /\ last.status = 200
    /\ last.changed
    /\ \E u \in users : u.id = last.uid /\ u.updated_at > u.created_at

\* C8: for every user identifier id, decode_access_token(create_access_token(id))
\* returns id when the token is verified at the instant it was issued, under
\* the settings of the process.
C8_TokenRoundTrip ==
    last.op = "round_trip" =>
        /\ last.issued
        /\ last.status = 200
        /\ last.uid = last.holder

\* C9 as stated: a token issued at time t with lifetime d is rejected by every
\* verification at a time later than t + d, and a protected request that
\* carries it then gets 401.
C9_RejectedAfterTtl ==
    (held # NoHeld /\ now > held.iat + TtlTicks) =>
        /\ decode_access_token(held.token, now).sub = NoneSub
        /\ get_current_user(Bearer(held.token), users, now).status = 401

\* C9, amended: a token issued at time t with lifetime d is rejected by every
\* verification in a whole second later than the whole second of t + d (so by
\* every verification at t + d + 1 s or later), and a protected request that
\* carries it then gets 401.
C9_RejectedAfterTtlSecond ==
    (held # NoHeld /\ WholeSeconds(now) > WholeSeconds(held.iat + TtlTicks)) =>
        /\ decode_access_token(held.token, now).sub = NoneSub
        /\ get_current_user(Bearer(held.token), users, now).status = 401

C9_Witness ==
    /\ held # NoHeld
    /\ WholeSeconds(now) > WholeSeconds(held.iat + TtlTicks)
    /\ last.op = "patch"
    /\ last.holder = held.uid
    /\ last.cause = "token_rejected"
    /\ last.status = 401

\* C10: the token of a successful register or login, presented to a protected
\* operation before it expires, authenticates as the user it was issued to
\* (same identifier and email) while that user's record is stored, and never
\* as any other user.
C10_TokenAuthenticatesItsUser ==
    (held # NoHeld /\ WholeSeconds(now) <= held.token.exp) =>
        LET auth == get_current_user(Bearer(held.token), users, now)
        IN /\ auth.status = 200 =>
                  auth.user.id = held.uid /\ auth.user.email = held.email
           /\ (\E u \in users : u.id = held.uid) => auth.status = 200
           /\ auth.status = 200 \/ auth.status = 401

C10_Witness ==
    /\ Cardinality(users) = 2
    /\ held # NoHeld
    /\ last.op = "get_me"
    /\ last.status = 200
    /\ last.holder = held.uid
    /\ last.uid = held.uid

\* C11: a protected request (GET /me or PATCH /me) without an Authorization
\* header is answered 403, one with a bearer token that is garbled or not
\* validly signed is answered 401; in both cases the handler body does not run
\* (PATCH /me loads no row to update) and no user data is returned or changed.
C11_MissingOrInvalidRefused ==
    [][/\ \A h \in InvalidHeaders \cup {NoHeader} :
             /\ ~PatchAuthenticated(h)
             /\ (GetProfile(h) \/ PatchRefused(h)) =>
                    /\ last'.status = IF h = NoHeader THEN 403 ELSE 401
                    /\ last'.uid = 0
                    /\ users' = users]_vars

\* C12: profile update has partial-update semantics: after an update each
\* supplied field of name and bio has the supplied value and each field that
\* was not supplied keeps the value it had before the update.
C12_PartialUpdate ==
    [][\A r \in BagToSet(inflight), u \in Updates :
          PatchCommit(r, u) =>
              LET before == get_user_by_id(users, Str(r.id))
                  after == get_user_by_id(users', Str(r.id))
              IN /\ after.name = IF u.name # None THEN u.name ELSE before.name
                 /\ after.bio = IF u.bio # None THEN u.bio ELSE before.bio]_vars

\* C13: a PATCH /me with an empty body by an authenticated user is answered
\* 200 and leaves the user's name, email and bio unchanged; it leaves the whole
\* table as it was, so repeating it any number of times gives the same result.
C13_EmptyPatchIsNoOp ==
    [][\A r \in BagToSet(inflight) :
          PatchCommit(r, EmptyUpdate) =>
              LET before == get_user_by_id(users, Str(r.id))
                  after == get_user_by_id(users', Str(r.id))
              IN /\ last'.status = 200
                 /\ after.name = before.name
                 /\ after.email = before.email
                 /\ after.bio = before.bio
                 /\ users' = users]_vars

C13_Witness ==
    /\ last.op = "patch"
    /\ last.status = 200
    /\ ~last.changed
    /\ \E u \in users : u.id = last.uid /\ u.name = "Al" /\ u.bio = None

\* C14: tokens are never revoked: a token that was issued is accepted by
\* decode_access_token at every moment before its expiry instant, whatever
\* register, login or profile-update operations happened since (a new login
\* by the same user included); only expiry ends its acceptance.
C14_AcceptedUntilExpiry ==
    (held # NoHeld /\ now < held.iat + TtlTicks) =>
        decode_access_token(held.token, now)
            = [raised |-> None, token |-> NoToken, sub |-> Str(held.uid)]

C14_Witness ==
    /\ held # NoHeld
    /\ now < held.iat + TtlTicks
    /\ \E u \in users : u.id = held.uid /\ u.updated_at > held.iat
    /\ last.op = "login"
    /\ last.status = 200
    /\ last.uid = held.uid

\* C15: every protected request that carries a bearer token ends in one of two
\* outcomes of the authenticator, the loaded user (200) or a 401 rejection,
\* for every token: bad signature, malformed, expired, wrong algorithm,
\* missing subject, subject that is not a well-formed identifier. No other
\* error escapes from decode_access_token or from the subject lookup.
C15_UserOrRejection ==
    [][\A h \in BearerHeaders :
          (GetProfile(h) \/ PatchRefused(h)) =>
              (last'.status = 200 \/ last'.status = 401)]_vars

\* a token that is not past its exp claim at time t (or has none to read)
Unexpired(token, t) == token.form # "jws" \/ WholeSeconds(t) <= token.exp

\* C16: the authenticator changes nothing: when get_current_user has run, on
\* success and on every rejection, the store holds the same user records with
\* the same field values as before; and called again with the same token, the
\* same store and a clock at which the token is unexpired, it gives the same
\* outcome.
C16_AuthenticatorChangesNothing ==
    [][\A h \in GateHeaders :
          /\ (GetProfile(h) \/ PatchRefused(h) \/ PatchAuthenticated(h)) =>
                 users' = users
          /\ (users' = users /\ held' = held
                  /\ Unexpired(Sent(h).credentials, now')) =>
                 get_current_user(Sent(h), users', now')
                     = get_current_user(Sent(h), users, now)]_vars

C16_Witness ==
    /\ last.op = "get_me"
    /\ last.status = 200
    /\ last.holder = held.uid
    /\ now > held.iat
    /\ \E u \in users : u.id = last.uid /\ u.bio # None

\* C17: registration is all-or-nothing: whenever register_user ends with an
\* error (email conflict, persistence failure, or a failure while issuing the
\* token after the record was committed) the store holds no new user record
\* for that request.
C17_RegisterAllOrNothing ==
    [][/\ \A e \in Emails : RegisterConflict(e) => users' = users
       /\ \A r \in BagToSet(inflight), p \in RegisterPasswords, n \in Names, salt \in Salts :
             /\ RegisterIntegrityError(r, p, n, salt) => users' = users
             /\ (RegisterInsert(r, p, n, salt) /\ last'.status # 201) =>
                    users' = users]_vars

\* C18: a user's bio can be replaced but never cleared: a new user's bio is
\* null, and once a record's bio is non-null no step (an update that sends
\* bio as null included) makes it null again.
C18_BioNeverCleared ==
    [][/\ \A a \in users, b \in users' :
             (b.id = a.id /\ a.bio # None) => b.bio # None
       /\ \A b \in users' :
             (\A a \in users : a.id # b.id) => b.bio = None]_vars

\* an account updated by a request that set the bio and by one that changed
\* the name and sent the bio as null: the bio is there after both
C18_Witness ==
    /\ last.op = "patch"
    /\ last.status = 200
    /\ last.changed
    /\ \E u \in users : u.id = last.uid /\ u.name = "Bo" /\ u.bio = "yo"

\* C19: a profile update changes only the authenticated caller's record:
\* every other user's record is unchanged and the number of records is
\* unchanged; login and GET /me change no record.
C19_OnlyCallersRecord ==
    [][/\ \A r \in BagToSet(inflight), u \in Updates :
             PatchCommit(r, u) =>
                 /\ \A o \in users : o.id # r.id => o \in users'
                 /\ Cardinality(users') = Cardinality(users)
       /\ \A e \in Emails, p \in LoginPasswords :
             (LoginRejected(e, p) \/ LoginVerified(e, p)) => users' = users
       /\ \A h \in Headers : GetProfile(h) => users' = users]_vars

\* a profile update that changed the caller's record while another user's
\* record was in the store
C19_Witness ==
    /\ last.op = "patch"
    /\ last.status = 200
    /\ last.changed
    /\ Cardinality(users) = 2
    /\ \E u \in users, o \in users :
          /\ u.id = last.uid
          /\ o.id # u.id
          /\ o.name # u.name

====
